---- MODULE Spec2Model ----
(***************************************************************************)
(* The chat session loop of streamlit_ui.py (and its earlier variant       *)
(* test.py) and the two forum adapters of ai_agent.py.                     *)
(*                                                                         *)
(* Spec        : one Streamlit session: reruns of main(), submissions,     *)
(*               the streaming run and its finalisation.                   *)
(* SpecAdapter : one invocation after another of find_subreddits and       *)
(*               search_reddit against a forum service whose answers are   *)
(*               inputs.                                                   *)
(***************************************************************************)
EXTENDS Integers, Sequences, FiniteSets, TLC

VARIABLES
    \* ---- session loop (streamlit_ui.py, test.py) ----
    variant,        \* which script runs the session: "streamlit_ui" or "test"
    session_keys,   \* the keys present in st.session_state
    messages,       \* st.session_state.messages
    tool_calls,     \* st.session_state.tool_calls : call id -> parsed arguments
    tool_usage,     \* st.session_state.tool_usage (test.py)
    pc,             \* "idle", "streaming" (run_stream being opened), "rendering"
    user_input,     \* the submission being run
    partial_text,   \* partial_text / response_content : the chunks received so far
    new_messages,   \* result.new_messages() of the open run
    clients,        \* one entry per httpx.AsyncClient ever created: "open" / "closed"
    agent_args,     \* the arguments of the last ai_agent.run_stream call
    next_call_id,   \* the next unused tool call identifier
    \* ---- observers of the session (no code reads them) ----
    submitted,      \* the texts submitted so far, in order
    n_failed,       \* how many runs raised
    hist_before,    \* messages as they were when the last submission arrived
    last_outcome,   \* "none", "running", "ok", "raised_stream", "raised_display"
    raised_text,    \* the partial text the last failed run had received
    rendered,       \* the argument blocks rendered for tool returns so far
    \* ---- forum adapters (ai_agent.py) ----
    apc,            \* "idle" (no invocation open), "returned", "raised"
    tool,           \* "none", "find_subreddits", "search_reddit"
    deps,           \* Deps: reddit_client_id, reddit_client_secret
    service,        \* what the forum service holds for the query of the invocation
    ret,            \* the value returned to the agent
    outbound        \* outbound calls performed by the invocation

sessionVars == <<variant, session_keys, messages, tool_calls, tool_usage, pc, user_input,
                 partial_text, new_messages, clients, agent_args, next_call_id,
                 submitted, n_failed, hist_before, last_outcome, raised_text,
                 rendered>>
adapterVars == <<apc, tool, deps, service, ret, outbound>>
vars == <<sessionVars, adapterVars>>

\* ------------------------------------------------------------------ bounds
MaxSubmissions == 2
MaxChunks == 2
MaxToolRounds == 1
MaxMatches == 6
MaxSubreddits == 2
MaxFree == 2

UserTexts == {<<"q1">>, <<"q2">>}
Chunks == {<<"x">>}

\* ------------------------------------------------------------------ helpers
Last(s) == s[Len(s)]
ButLast(s) == SubSeq(s, 1, Len(s) - 1)
IsPrefix(s, t) == Len(s) <= Len(t) /\ SubSeq(t, 1, Len(s)) = s

RECURSIVE Flatten(_)
Flatten(ss) == IF ss = <<>> THEN <<>> ELSE Head(ss) \o Flatten(Tail(ss))

\* ------------------------------------------------------------------ messages
\* Every text (a prompt, a streamed answer, an argument payload, a tool result)
\* is a sequence of pieces, so that texts concatenate and compare.
NoId == 0
NoValue == "None"

Part(kind, content, id) == [part_kind |-> kind, content |-> content, tool_call_id |-> id]
SystemPromptPart == Part("system-prompt", <<"systemPrompt">>, NoId)
UserPromptPart(content) == Part("user-prompt", content, NoId)
TextPart(content) == Part("text", content, NoId)
ToolCallPart(args_json, id) == Part("tool-call", args_json, id)
ToolReturnPart(content, id) == Part("tool-return", content, id)
RetryPromptPart(content, id) == Part("retry-prompt", content, id)

ModelRequest(parts) == [kind |-> "request", parts |-> parts]
ModelResponse(parts) == [kind |-> "response", parts |-> parts]

HasPartKind(msg, kind) == \E i \in 1..Len(msg.parts) : msg.parts[i].part_kind = kind

\* The argument payloads a model can emit: a well-formed JSON object, or text that is
\* no JSON (the payload is whatever the model wrote).
GoodArgs == <<"{\"query\": \"q\"}">>
BadArgs == <<"{\"query\": ">>
ArgsJsons == {GoodArgs, BadArgs}

\* A parsed JSON object is the set of its <<key, value>> pairs; {} is the empty one.
EmptyDict == {}

\* json.loads: the parsed object, or the JSONDecodeError it raises.
JsonLoads(s) ==
    IF s = GoodArgs THEN [ok |-> TRUE, value |-> {<<"query", "q">>}]
    ELSE [ok |-> FALSE, value |-> NoValue]

Retries == 2

\* The tool events of one run, one round per tool call the model made: the
\* model-response message carrying the call, then the request message carrying
\* its return (or the retry prompt, when the arguments did not validate).
RECURSIVE ToolMessages(_, _)
ToolMessages(rounds, first_id) ==
    IF rounds = <<>> THEN <<>>
    ELSE LET a == Head(rounds)
             back == IF JsonLoads(a).ok THEN ToolReturnPart(<<"result">>, first_id)
                     ELSE RetryPromptPart(<<"invalid arguments">>, first_id)
         IN <<ModelResponse(<<ToolCallPart(a, first_id)>>), ModelRequest(<<back>>)>>
            \o ToolMessages(Tail(rounds), first_id + 1)

\* result.new_messages() once stream_text(delta=True) is exhausted: the request
\* carrying the prompt (with the system prompt when there was no history), then
\* the tool events. The streamed text itself is not among them.
NewMessages(prompt, message_history, rounds, first_id) ==
    <<ModelRequest((IF message_history = <<>> THEN <<SystemPromptPart>> ELSE <<>>)
                   \o <<UserPromptPart(prompt)>>)>>
    \o ToolMessages(rounds, first_id)

RoundSeqs == UNION {[1..n -> ArgsJsons] : n \in 0..MaxToolRounds}
NumBad(rounds) == Cardinality({i \in 1..Len(rounds) : ~JsonLoads(rounds[i]).ok})


\* ------------------------------------------------------------------ display
\* st.session_state.tool_calls[id] = args
Record(tc, id, args) == [i \in DOMAIN tc \cup {id} |-> IF i = id THEN args ELSE tc[i]]

\* st.session_state.tool_calls.get(id, {})
ToolArgs(tc, id) == IF id \in DOMAIN tc THEN tc[id] ELSE EmptyDict

\* A display_message_part whose tool-call branch parses the arguments and forgets them.
display_message_part_forgets(part, tc) ==
    IF part.part_kind = "tool-call"
    THEN [tool_calls |-> tc, raised |-> ~JsonLoads(part.content).ok, shown |-> <<>>]
    ELSE IF part.part_kind = "tool-return"
    THEN [tool_calls |-> tc, raised |-> FALSE,
          shown |-> <<[tool_call_id |-> part.tool_call_id,
                       tool_args |-> ToolArgs(tc, part.tool_call_id)]>>]
    ELSE [tool_calls |-> tc, raised |-> FALSE, shown |-> <<>>]

\* display_message_part: what it leaves in tool_calls, whether it raised, and the
\* argument block it rendered (tool-return branch). Only the tool-call branch
\* writes state, and only json.loads can raise in it.
display_message_part(part, tc) ==
    IF part.part_kind = "tool-call"
    THEN LET args == JsonLoads(part.content)
         IN IF args.ok THEN [tool_calls |-> Record(tc, part.tool_call_id, args.value),
                             raised |-> FALSE, shown |-> <<>>]
            ELSE [tool_calls |-> tc, raised |-> TRUE, shown |-> <<>>]
    ELSE IF part.part_kind = "tool-return"
    THEN [tool_calls |-> tc, raised |-> FALSE,
          shown |-> <<[tool_call_id |-> part.tool_call_id,
                       tool_args |-> ToolArgs(tc, part.tool_call_id)]>>]
    ELSE [tool_calls |-> tc, raised |-> FALSE, shown |-> <<>>]

RECURSIVE DisplayParts(_, _)
\* the parts displayed in order; the first exception ends the loop
DisplayParts(parts, tc) ==
    IF parts = <<>> THEN [tool_calls |-> tc, raised |-> FALSE, shown |-> <<>>]
    ELSE LET d == display_message_part(Head(parts), tc)
         IN IF d.raised THEN d
            ELSE LET rest == DisplayParts(Tail(parts), d.tool_calls)
                 IN [rest EXCEPT !.shown = d.shown \o rest.shown]

\* the argument blocks of one display loop, marked with the loop that rendered them
Rendered(shown, during) ==
    {[tool_call_id |-> shown[i].tool_call_id, tool_args |-> shown[i].tool_args,
      during |-> during] : i \in 1..Len(shown)}

AllParts(msgs) == Flatten([i \in 1..Len(msgs) |-> msgs[i].parts])

\* main(): the replay of the conversation so far
Replay(msgs, tc) == DisplayParts(AllParts(msgs), tc)

\* run_agent_with_streaming: the display of the run's tool parts
ToolParts(msgs) ==
    SelectSeq(AllParts(msgs), LAMBDA part : part.part_kind \in {"tool-call", "tool-return"})

\* ------------------------------------------------------------------ session state
\* A main() that starts every rerun from an empty history.
InitMessagesAlwaysEmpty(keys, msgs) == <<>>

\* main(): `if "messages" not in st.session_state: st.session_state.messages = []`
InitMessages(keys, msgs) == IF "messages" \in keys THEN msgs ELSE <<>>
\* main(): `if "tool_calls" not in st.session_state: st.session_state.tool_calls = {}`
InitToolCalls(keys, tc) == IF "tool_calls" \in keys THEN tc ELSE <<>>

\* main(): the new request appended for a submission
UserTurn(text) == ModelRequest(<<UserPromptPart(text)>>)

\* A run_stream call handed the whole history, the new user turn included.
RunStreamArgsWholeHistory(text, msgs) == [prompt |-> text, message_history |-> msgs]

\* run_agent_with_streaming: ai_agent.run_stream(user_input, message_history=messages[:-1])
RunStreamArgs(text, msgs) == [prompt |-> text, message_history |-> ButLast(msgs)]
\* test.py prompt_ai: ai_agent.run_stream(messages[-1].content, message_history=messages[:-1])
PromptAiArgs(msgs) ==
    [prompt |-> Last(msgs).parts[1].content, message_history |-> ButLast(msgs)]

\* A filter that keeps every message of the run.
FilteredMessagesKeepAll(new) == new

\* run_agent_with_streaming: the messages of the run kept for the history
FilteredMessages(new) == SelectSeq(new, LAMBDA msg : ~HasPartKind(msg, "user-prompt"))

\* A finalisation that appends the streamed answer before and after the run's messages.
AfterFinalizeTwice(msgs, text, new) ==
    ((msgs \o <<ModelResponse(<<TextPart(text)>>)>>) \o FilteredMessages(new))
    \o <<ModelResponse(<<TextPart(text)>>)>>

\* run_agent_with_streaming: the history once the text stream is exhausted
AfterFinalize(msgs, text, new) ==
    (msgs \o <<ModelResponse(<<TextPart(text)>>)>>) \o FilteredMessages(new)

\* A failure path that still appends what was streamed so far.
AfterRaiseKeepsPartial(msgs, text) == Append(msgs, ModelResponse(<<TextPart(text)>>))

\* the history when the run raised before the text stream was exhausted: the
\* appends of run_agent_with_streaming are never reached
AfterRaise(msgs, text) == msgs

\* `finally: await deps.client.aclose()` / the exit of `async with AsyncClient()`
CloseClient(cl) == [cl EXCEPT ![Len(cl)] = "closed"]

\* ------------------------------------------------------------------ session actions
AdapterIdle ==
    /\ apc = "idle" /\ tool = "none" /\ deps = NoValue /\ service = NoValue
    /\ ret = NoValue /\ outbound = 0

Init ==
    /\ variant \in {"streamlit_ui", "test"}
    /\ session_keys = {}
    /\ messages = <<>>
    /\ tool_calls = <<>>
    /\ tool_usage = <<>>
    /\ pc = "idle"
    /\ user_input = NoValue
    /\ partial_text = <<>>
    /\ new_messages = <<>>
    /\ clients = <<>>
    /\ agent_args = NoValue
    /\ next_call_id = 1
    /\ submitted = <<>>
    /\ n_failed = 0
    /\ hist_before = <<>>
    /\ last_outcome = "none"
    /\ raised_text = <<>>
    /\ rendered = {}
    /\ AdapterIdle

\* What main() does before it reads the chat input.
MainKeys == IF variant = "streamlit_ui" THEN {"messages", "tool_calls"} ELSE {"messages"}
MainReplay ==
    IF variant = "streamlit_ui"
    THEN Replay(InitMessages(session_keys, messages), InitToolCalls(session_keys, tool_calls))
    ELSE [tool_calls |-> tool_calls, raised |-> FALSE, shown |-> <<>>]

\* A rerun of the script with no chat input (or one whose replay raised before
\* the chat input was reached).
MainRerun ==
    /\ pc = "idle"
    /\ session_keys' = session_keys \cup MainKeys
    /\ messages' = InitMessages(session_keys, messages)
    /\ tool_calls' = MainReplay.tool_calls
    /\ rendered' = rendered \cup Rendered(MainReplay.shown, "replay")
    /\ UNCHANGED <<variant, tool_usage, pc, user_input, partial_text, new_messages, clients,
                   agent_args, next_call_id, submitted, n_failed, hist_before, last_outcome,
                   raised_text>>
    /\ UNCHANGED adapterVars

\* A rerun with a chat input: the user turn is appended and the run is started.
MainSubmit(text) ==
    /\ pc = "idle"
    /\ Len(submitted) < MaxSubmissions
    /\ ~MainReplay.raised
    /\ session_keys' = session_keys \cup MainKeys
    /\ tool_calls' = MainReplay.tool_calls
    /\ rendered' = rendered \cup Rendered(MainReplay.shown, "replay")
    /\ messages' = Append(InitMessages(session_keys, messages), UserTurn(text))
    /\ user_input' = text
    /\ clients' = Append(clients, "open")
    /\ agent_args' = IF variant = "streamlit_ui" THEN RunStreamArgs(text, messages')
                     ELSE PromptAiArgs(messages')
    /\ partial_text' = <<>>
    /\ new_messages' = <<>>
    /\ pc' = "streaming"
    /\ submitted' = Append(submitted, text)
    /\ hist_before' = InitMessages(session_keys, messages)
    /\ last_outcome' = "running"
    /\ UNCHANGED <<variant, tool_usage, next_call_id, n_failed, raised_text>>
    /\ UNCHANGED adapterVars

\* run_stream is entered: the model has made its tool calls and starts to answer.
OpenStream(rounds) ==
    /\ pc = "streaming"
    /\ NumBad(rounds) <= Retries
    /\ new_messages' = NewMessages(agent_args.prompt, agent_args.message_history,
                                   rounds, next_call_id)
    /\ next_call_id' = next_call_id + Len(rounds)
    /\ session_keys' = IF variant = "test" THEN session_keys \cup {"tool_usage"}
                       ELSE session_keys
    /\ pc' = "rendering"
    /\ UNCHANGED <<variant, messages, tool_calls, tool_usage, user_input, partial_text,
                   clients, agent_args, submitted, n_failed, hist_before, last_outcome,
                   raised_text, rendered>>
    /\ UNCHANGED adapterVars

\* A rendering loop that writes the text received so far into the history.
StreamChunkIntoHistory(chunk) ==
    /\ pc = "rendering"
    /\ Len(partial_text) < MaxChunks
    /\ partial_text' = partial_text \o chunk
    /\ messages' = Append(messages, ModelResponse(<<TextPart(partial_text')>>))
    /\ UNCHANGED <<variant, session_keys, tool_calls, tool_usage, pc, user_input,
                   new_messages, clients, agent_args, next_call_id, submitted, n_failed,
                   hist_before, last_outcome, raised_text, rendered>>
    /\ UNCHANGED adapterVars

\* One text delta arrives and is rendered.
StreamChunk(chunk) ==
    /\ pc = "rendering"
    /\ Len(partial_text) < MaxChunks
    /\ partial_text' = partial_text \o chunk
    /\ UNCHANGED <<variant, session_keys, messages, tool_calls, tool_usage, pc, user_input,
                   new_messages, clients, agent_args, next_call_id, submitted, n_failed,
                   hist_before, last_outcome, raised_text, rendered>>
    /\ UNCHANGED adapterVars

\* A run whose client is closed on the success path only.
RunRaisesLeak ==
    /\ pc \in {"streaming", "rendering"}
    /\ messages' = AfterRaise(messages, partial_text)
    /\ clients' = clients
    /\ partial_text' = <<>>
    /\ new_messages' = <<>>
    /\ pc' = "idle"
    /\ n_failed' = n_failed + 1
    /\ last_outcome' = "raised_stream"
    /\ raised_text' = partial_text
    /\ UNCHANGED <<variant, session_keys, tool_calls, tool_usage, user_input, agent_args,
                   next_call_id, submitted, hist_before, rendered>>
    /\ UNCHANGED adapterVars

\* The run raises while run_stream is being opened or while text is streamed.
RunRaises ==
    /\ pc \in {"streaming", "rendering"}
    /\ messages' = AfterRaise(messages, partial_text)
    /\ clients' = CloseClient(clients)
    /\ partial_text' = <<>>
    /\ new_messages' = <<>>
    /\ pc' = "idle"
    /\ n_failed' = n_failed + 1
    /\ last_outcome' = "raised_stream"
    /\ raised_text' = partial_text
    /\ UNCHANGED <<variant, session_keys, tool_calls, tool_usage, user_input, agent_args,
                   next_call_id, submitted, hist_before, rendered>>
    /\ UNCHANGED adapterVars

\* streamlit_ui.py: the text stream is exhausted; the response and the run's
\* messages are appended, the tool parts displayed, the client closed.
Finalize ==
    /\ variant = "streamlit_ui"
    /\ pc = "rendering"
    /\ LET d == DisplayParts(ToolParts(new_messages), tool_calls)
       IN /\ messages' = AfterFinalize(messages, partial_text, new_messages)
          /\ tool_calls' = d.tool_calls
          /\ rendered' = rendered \cup Rendered(d.shown, "live")
          /\ n_failed' = IF d.raised THEN n_failed + 1 ELSE n_failed
          /\ last_outcome' = IF d.raised THEN "raised_display" ELSE "ok"
          /\ raised_text' = IF d.raised THEN partial_text ELSE raised_text
    /\ clients' = CloseClient(clients)
    /\ partial_text' = <<>>
    /\ new_messages' = <<>>
    /\ pc' = "idle"
    /\ UNCHANGED <<variant, session_keys, tool_usage, user_input, agent_args, next_call_id,
                   submitted, hist_before>>
    /\ UNCHANGED adapterVars

\* test.py: the tool calls of the run, as prompt_ai collects them
CalledIds(new) ==
    LET at == SelectSeq(AllParts(new), LAMBDA part : part.part_kind = "tool-call")
    IN [i \in 1..Len(at) |-> at[i].tool_call_id]

ToolsUsedText == "Tools Used in this Response"

\* test.py: the text stream is exhausted. With tool calls, prompt_ai records them,
\* yields the tools text and then reaches stylable_container, a name the module
\* never binds: the NameError leaves main() before its final append. Without
\* tool calls the generator ends, the client is closed and main() appends the response.
FinalizeTest ==
    /\ variant = "test"
    /\ pc = "rendering"
    /\ LET calls == CalledIds(new_messages)
       IN IF calls # <<>>
          THEN /\ tool_usage' = Append(tool_usage, calls)
               /\ messages' = messages
               /\ n_failed' = n_failed + 1
               /\ last_outcome' = "raised_display"
               /\ raised_text' = Append(partial_text, ToolsUsedText)
          ELSE /\ tool_usage' = tool_usage
               /\ messages' = Append(messages, ModelResponse(<<TextPart(partial_text)>>))
               /\ n_failed' = n_failed
               /\ last_outcome' = "ok"
               /\ raised_text' = raised_text
    /\ clients' = CloseClient(clients)
    /\ partial_text' = <<>>
    /\ new_messages' = <<>>
    /\ pc' = "idle"
    /\ UNCHANGED <<variant, session_keys, tool_calls, user_input, agent_args, next_call_id,
                   submitted, hist_before, rendered>>
    /\ UNCHANGED adapterVars

Next ==
    \/ MainRerun
    \/ \E text \in UserTexts : MainSubmit(text)
    \/ \E rounds \in RoundSeqs : OpenStream(rounds)
    \/ \E chunk \in Chunks : StreamChunk(chunk)
    \/ RunRaises
    \/ Finalize
    \/ FinalizeTest

Spec == Init /\ [][Next]_vars


\* ------------------------------------------------------------------ session claims
NumResponses(msgs) == Cardinality({i \in 1..Len(msgs) : msgs[i].kind = "response"})
NumTextResponses(msgs) ==
    Cardinality({i \in 1..Len(msgs) : msgs[i].kind = "response" /\ HasPartKind(msgs[i], "text")})
NumToolCallResponses(msgs) ==
    Cardinality({i \in 1..Len(msgs) :
                    msgs[i].kind = "response" /\ HasPartKind(msgs[i], "tool-call")})
UserTurns(msgs) == SelectSeq(msgs, LAMBDA msg : HasPartKind(msg, "user-prompt"))
UserTurnTexts(msgs) ==
    LET us == UserTurns(msgs)
    IN [i \in 1..Len(us) |-> [j \in 1..Len(us[i].parts) |-> us[i].parts[j].content]]

\* C1 as stated: back at idle after N submissions the history holds at most N
\* model-response messages, fewer than N only when some run failed.
C1_AtMostNModelResponses ==
    pc = "idle" =>
        /\ NumResponses(messages) <= Len(submitted)
        /\ (NumResponses(messages) < Len(submitted) => n_failed > 0)

\* C1 amended: back at idle after N submissions the history holds at most N
\* model-response messages carrying a text Part (the streamed answers), fewer than N
\* only when some run failed; every other model-response message carries a tool-call
\* Part of a run, so the model-response messages number at most N plus the tool calls made.
C1_AtMostNTextResponses ==
    pc = "idle" =>
        /\ NumTextResponses(messages) <= Len(submitted)
        /\ (NumTextResponses(messages) < Len(submitted) => n_failed > 0)
        /\ NumResponses(messages) = NumTextResponses(messages) + NumToolCallResponses(messages)
        /\ NumToolCallResponses(messages) <= next_call_id - 1

C1_Witness ==
    /\ pc = "idle"
    /\ Len(submitted) = 2
    /\ n_failed = 1
    /\ last_outcome = "ok"
    /\ NumTextResponses(messages) = 1
    /\ NumToolCallResponses(messages) = 1

\* C2: the user Turns of the history are exactly the submissions, one each and in
\* submission order, whether their runs failed or not; finalisation adds none.
C2_UserTurnsAreSubmissions ==
    UserTurnTexts(messages) = [i \in 1..Len(submitted) |-> <<submitted[i]>>]

C2_Witness ==
    /\ pc = "idle"
    /\ variant = "streamlit_ui"
    /\ Len(submitted) = 2
    /\ submitted[1] # submitted[2]
    /\ n_failed = 1
    /\ last_outcome = "ok"
    /\ Len(messages) > 3

\* C3 as stated: whenever the run raised, at any point before the loop is back at
\* idle, the history is the history before the submission plus the user Turn.
C3_AnyFailureLeavesOnlyUserTurn ==
    (pc = "idle" /\ last_outcome \in {"raised_stream", "raised_display"}) =>
        messages = Append(hist_before, UserTurn(user_input))

\* C3 amended: when the run raises before the text stream is exhausted (while
\* run_stream is opened or while text is streamed), the history afterwards is the
\* history before the submission plus the user Turn, and the partial text is gone.
C3_StreamFailureLeavesOnlyUserTurn ==
    (pc = "idle" /\ last_outcome = "raised_stream") =>
        /\ messages = Append(hist_before, UserTurn(user_input))
        /\ partial_text = <<>>

C3_Witness ==
    /\ pc = "idle"
    /\ last_outcome = "raised_stream"
    /\ raised_text # <<>>
    /\ hist_before # <<>>
    /\ messages = Append(hist_before, UserTurn(user_input))

\* C4: every run has created exactly one client; back at idle every client is
\* closed, and while a run is open its client is open and all earlier ones closed.
C4_ClientScopedToRun ==
    /\ Len(clients) = Len(submitted)
    /\ pc = "idle" => \A i \in 1..Len(clients) : clients[i] = "closed"
    /\ pc # "idle" =>
        /\ clients # <<>>
        /\ Last(clients) = "open"
        /\ \A i \in 1..(Len(clients) - 1) : clients[i] = "closed"

C4_Witness ==
    /\ pc = "idle"
    /\ last_outcome = "raised_stream"
    /\ Len(clients) = 2
    /\ clients[2] = "closed"

\* C5: while a run is open, the prompt it was given is the text of the last element
\* of the history, a user Turn, and its message history is the history without
\* that last element.
C5_PromptIsNewestUserTurn ==
    pc \in {"streaming", "rendering"} =>
        /\ messages # <<>>
        /\ Last(messages) = UserTurn(agent_args.prompt)
        /\ agent_args.prompt = Last(submitted)
        /\ agent_args.message_history = ButLast(messages)

C5_Witness ==
    /\ pc = "streaming"
    /\ n_failed = 1
    /\ Len(messages) = 2
    /\ agent_args.message_history = <<UserTurn(submitted[1])>>
    /\ agent_args.prompt = submitted[2]

\* C6: the history only grows: in every step the history before is a prefix of the
\* history after.
C6_HistoryAppendOnly == [][IsPrefix(messages, messages')]_vars

C6_Witness ==
    /\ pc = "idle"
    /\ "messages" \in session_keys
    /\ n_failed = 1
    /\ last_outcome = "ok"
    /\ Len(messages) > 3


\* The phases of the loop: IDLE is pc = "idle", STREAMING pc = "streaming",
\* RENDERING pc = "rendering"; FINALIZING is the step from "rendering" to "idle"
\* that appends (lines 105-130 hold no suspension point before the client is closed).
PhaseSteps ==
    { <<"idle", "idle">>, <<"idle", "streaming">>, <<"streaming", "rendering">>,
      <<"rendering", "rendering">>, <<"rendering", "idle">>, <<"streaming", "idle">> }

\* C11: every step follows the phase order IDLE, STREAMING, RENDERING, FINALIZING,
\* IDLE, or returns to IDLE when the run raises; a run starts only from IDLE with no
\* client open, by appending the user Turn; opening the stream and rendering deltas
\* leave the history alone; and anything else is appended only by the finalising
\* step, which appends the whole streamed text as the assistant Turn, followed (in
\* streamlit_ui.py) by the tool-call and tool-return messages of the run.
C11_PhaseOrder ==
    [][ /\ <<pc, pc'>> \in PhaseSteps
        /\ pc' = "streaming" =>
            /\ pc = "idle"
            /\ \A i \in 1..Len(clients) : clients[i] = "closed"
            /\ messages' = Append(messages, UserTurn(user_input'))
        /\ pc' = "rendering" => messages' = messages
        /\ (pc' = "idle" /\ messages' # messages) =>
            /\ pc = "rendering"
            /\ Len(messages') > Len(messages)
            /\ SubSeq(messages', 1, Len(messages) + 1)
                   = Append(messages, ModelResponse(<<TextPart(partial_text)>>))
            /\ SubSeq(messages', Len(messages) + 2, Len(messages'))
                   = (IF variant = "streamlit_ui" THEN Tail(new_messages) ELSE <<>>)
      ]_vars

C11_Witness ==
    /\ variant = "streamlit_ui"
    /\ pc = "idle"
    /\ last_outcome = "ok"
    /\ Len(submitted) = 2
    /\ Len(messages) = 6
    /\ messages[2] = ModelResponse(<<TextPart(<<"x", "x">>)>>)
    /\ HasPartKind(messages[3], "tool-call")
    /\ HasPartKind(messages[4], "tool-return")
    /\ messages[5] = UserTurn(submitted[2])
    /\ messages[6].kind = "response"

\* ------------------------------------------------------------------ forum adapters
SubredditLimit == 5
SearchLimit == 5
TopComments == 8
BodyLimit == 1800

Take(s, n) == SubSeq(s, 1, IF Len(s) < n THEN Len(s) ELSE n)

\* A comment body is the characters of `head` followed by `pad` filler characters
\* (a filler never ends a head), so bodies longer than BodyLimit stay small values.
Body(head, pad) == [head |-> head, pad |-> pad]
BodyLen(b) == Len(b.head) + b.pad
Removed == Body(<<"[", "r", "e", "m", "o", "v", "e", "d", "]">>, 0)

\* body[:n]
Truncate(b, n) ==
    IF BodyLen(b) <= n THEN b
    ELSE IF Len(b.head) >= n THEN Body(SubSeq(b.head, 1, n), 0)
    ELSE Body(b.head, n - Len(b.head))

\* An entry of post.comments.list(): a Comment, or a MoreComments placeholder, which
\* has neither score nor body.
Comment(author, score, body) ==
    [is_comment |-> TRUE, author |-> author, score |-> score, body |-> body]
MoreComments == [is_comment |-> FALSE, author |-> NoValue, score |-> 0, body |-> Body(<<>>, 0)]

\* key=lambda comment: comment.score if isinstance(comment, praw.models.Comment) else 0
SortKey(c) == IF c.is_comment THEN c.score ELSE 0

RECURSIVE InsertDesc(_, _)
InsertDesc(x, sorted) ==
    IF sorted = <<>> THEN <<x>>
    ELSE IF SortKey(Head(sorted)) >= SortKey(x)
         THEN <<Head(sorted)>> \o InsertDesc(x, Tail(sorted))
         ELSE <<x>> \o sorted

RECURSIVE SortedByScore(_)
\* sorted(..., key=..., reverse=True): descending, equal keys in their original order
SortedByScore(cs) ==
    IF cs = <<>> THEN <<>> ELSE InsertDesc(Last(cs), SortedByScore(ButLast(cs)))

\* the fields search_reddit extracts from a comment
ProcessedComment(c) ==
    [author |-> c.author, score |-> c.score, body |-> Truncate(c.body, BodyLimit)]

\* A comment list built without the `[removed]` test.
ProcessedCommentsKeepRemoved(cs) ==
    LET kept == SelectSeq(SortedByScore(cs), LAMBDA c : c.is_comment)
    IN Take([i \in 1..Len(kept) |-> ProcessedComment(kept[i])], TopComments)

\* A comment list sliced to its first entries before the entries are tested.
ProcessedCommentsSliceFirst(cs) ==
    LET kept == SelectSeq(Take(SortedByScore(cs), TopComments),
                          LAMBDA c : c.is_comment /\ c.body # Removed)
    IN [i \in 1..Len(kept) |-> ProcessedComment(kept[i])]

\* processed_comments of search_reddit
ProcessedComments(cs) ==
    LET kept == SelectSeq(SortedByScore(cs), LAMBDA c : c.is_comment /\ c.body # Removed)
    IN Take([i \in 1..Len(kept) |-> ProcessedComment(kept[i])], TopComments)

\* the generator of reddit.subreddit(...).search(query, limit=...) and of
\* reddit.subreddits.search(query, limit=...): the first `limit` matches
PrawSearch(matches, limit) == Take(matches, limit)

\* the dictionary appended to result_list for a post
PostDetails(post, comments) ==
    [title |-> post.title, selftext |-> post.selftext, comments |-> comments]

\* A loop that reads post.comments before it looks at selftext.
RECURSIVE SearchLoopFetchFirst(_, _, _)
SearchLoopFetchFirst(posts, comments, acc) ==
    IF posts = <<>> THEN acc
    ELSE LET post == Head(posts)
         IN IF post.selftext = <<>>
            THEN SearchLoopFetchFirst(Tail(posts), comments,
                    [acc EXCEPT !.outbound = acc.outbound + 1])
            ELSE SearchLoopFetchFirst(Tail(posts), comments,
                    [result_list |-> Append(acc.result_list,
                                            PostDetails(post, ProcessedComments(comments))),
                     outbound |-> acc.outbound + 1])

\* the loop of search_reddit over the posts the search yields: a post without
\* selftext is skipped; any other has its comments read (post.comments, one request
\* to the service) and its details appended.
RECURSIVE SearchLoop(_, _, _)
SearchLoop(posts, comments, acc) ==
    IF posts = <<>> THEN acc
    ELSE LET post == Head(posts)
         IN IF post.selftext = <<>>
            THEN SearchLoop(Tail(posts), comments, acc)
            ELSE SearchLoop(Tail(posts), comments,
                    [result_list |-> Append(acc.result_list,
                                            PostDetails(post, ProcessedComments(comments))),
                     outbound |-> acc.outbound + 1])

Returned(kind, value) == [kind |-> kind, value |-> value]

\* search_reddit, once praw.Reddit is constructed: the value returned and the
\* requests made (one for the page of search results, then those of the loop)
search_reddit(posts, comments) ==
    LET done == SearchLoop(PrawSearch(posts, SearchLimit), comments,
                           [result_list |-> <<>>, outbound |-> 1])
    IN [ret |-> Returned("dict", [results |-> done.result_list]), outbound |-> done.outbound]

\* find_subreddits, once praw.Reddit is constructed: the first subreddit the search
\* yields is returned from inside the loop; with none the function falls off its end.
find_subreddits(subreddits) ==
    LET found == PrawSearch(subreddits, SubredditLimit)
    IN [ret |-> IF found = <<>> THEN Returned("none", NoValue)
                ELSE Returned("dict", [subreddit |-> Head(found)]),
        outbound |-> 1]

\* ---- the inputs of an invocation
Tools == {"find_subreddits", "search_reddit"}

\* run_agent_with_streaming: os.getenv('REDDIT_CLIENT_ID', None), os.getenv('REDDIT_CLIENT_SECRET', None)
DepsChoices == [reddit_client_id : {NoValue, "id"}, reddit_client_secret : {NoValue, "secret"}]
MissingCredential(d) == d.reddit_client_id = NoValue \/ d.reddit_client_secret = NoValue

SubredditLists == UNION {[1..n -> {"s1", "s2"}] : n \in 0..MaxSubreddits}

NoText == <<>>
SomeText == <<"text">>
PostLists ==
    {[i \in 1..n |-> [title |-> i, selftext |-> IF i \in textful THEN SomeText ELSE NoText]] :
        n \in 0..MaxMatches, textful \in SUBSET (1..MaxMatches)}

CommentPool ==
    { MoreComments,
      Comment(NoValue, 3, Removed),
      Comment("u1", -1, Body(<<"a">>, 0)),
      Comment("u2", 2, Body(<<"b">>, BodyLimit)) }
Filler(n) == [i \in 1..n |-> Comment("u3", -1, Body(<<"f">>, 0))]
CommentLists ==
    {free \o Filler(n) : free \in UNION {[1..k -> CommentPool] : k \in 0..MaxFree},
                         n \in {0, TopComments}}

\* ---- adapter actions
\* praw.Reddit(...) refuses to be constructed with a credential missing.
InvokeRejected ==
    /\ apc = "idle"
    /\ \E t \in Tools, d \in DepsChoices :
        /\ MissingCredential(d)
        /\ tool' = t
        /\ deps' = d
    /\ service' = NoValue
    /\ ret' = Returned("raised", NoValue)
    /\ outbound' = 0
    /\ apc' = "raised"
    /\ UNCHANGED sessionVars

\* The request for the search results fails: the exception leaves the adapter.
InvokeUpstreamFails ==
    /\ apc = "idle"
    /\ \E t \in Tools, d \in DepsChoices :
        /\ tool' = t
        /\ deps' = d
    /\ service' = NoValue
    /\ ret' = Returned("raised", NoValue)
    /\ outbound' = 1
    /\ apc' = "raised"
    /\ UNCHANGED sessionVars

InvokeFindSubreddits ==
    /\ apc = "idle"
    /\ \E d \in DepsChoices, subreddits \in SubredditLists :
        LET done == find_subreddits(subreddits)
        IN /\ deps' = d
           /\ service' = [subreddits |-> subreddits]
           /\ ret' = done.ret
           /\ outbound' = done.outbound
    /\ tool' = "find_subreddits"
    /\ apc' = "returned"
    /\ UNCHANGED sessionVars

InvokeSearchReddit ==
    /\ apc = "idle"
    /\ \E d \in DepsChoices, posts \in PostLists, comments \in CommentLists :
        LET done == search_reddit(posts, comments)
        IN /\ deps' = d
           /\ service' = [posts |-> posts, comments |-> comments]
           /\ ret' = done.ret
           /\ outbound' = done.outbound
    /\ tool' = "search_reddit"
    /\ apc' = "returned"
    /\ UNCHANGED sessionVars

\* The agent runtime has taken the outcome; the adapters await the next tool call.
AdapterDone ==
    /\ apc \in {"returned", "raised"}
    /\ apc' = "idle"
    /\ tool' = "none"
    /\ deps' = NoValue
    /\ service' = NoValue
    /\ ret' = NoValue
    /\ outbound' = 0
    /\ UNCHANGED sessionVars

AdapterInit ==
    /\ variant = "streamlit_ui"
    /\ session_keys = {}
    /\ messages = <<>>
    /\ tool_calls = <<>>
    /\ tool_usage = <<>>
    /\ pc = "idle"
    /\ user_input = NoValue
    /\ partial_text = <<>>
    /\ new_messages = <<>>
    /\ clients = <<>>
    /\ agent_args = NoValue
    /\ next_call_id = 1
    /\ submitted = <<>>
    /\ n_failed = 0
    /\ hist_before = <<>>
    /\ last_outcome = "none"
    /\ raised_text = <<>>
    /\ rendered = {}
    /\ AdapterIdle

AdapterNext ==
    \/ InvokeRejected
    \/ InvokeUpstreamFails
    \/ InvokeFindSubreddits
    \/ InvokeSearchReddit
    \/ AdapterDone

SpecAdapter == AdapterInit /\ [][AdapterNext]_vars


\* ------------------------------------------------------------------ adapter claims
\* C7: an invocation with a credential missing returns a non-empty placeholder
\* string and performs no outbound call.
C7_MissingCredentialPlaceholder ==
    (apc # "idle" /\ MissingCredential(deps)) =>
        /\ apc = "returned"
        /\ ret.kind = "str"
        /\ ret.value # <<>>
        /\ outbound = 0

\* C8 as stated: an invocation has performed exactly one outbound call (read here
\* of the invocations that return, with both credentials present).
C8_ExactlyOneCall == (apc = "returned" /\ ~MissingCredential(deps)) => outbound = 1

\* C8 amended: find_subreddits, when it returns, has performed exactly one outbound
\* call; search_reddit, when it returns, has performed one call for the search plus
\* one comment fetch for each post of its output (each post with body text among the
\* at most SearchLimit the search yields).
C8_OneCallPlusOnePerPost ==
    apc = "returned" =>
        /\ tool = "find_subreddits" => outbound = 1
        /\ tool = "search_reddit" =>
            /\ outbound = 1 + Len(ret.value.results)
            /\ outbound = 1 + Cardinality({i \in 1..Len(service.posts) :
                                  i <= SearchLimit /\ service.posts[i].selftext # NoText})

C8_Witness ==
    /\ apc = "returned"
    /\ tool = "search_reddit"
    /\ ~MissingCredential(deps)
    /\ Len(service.posts) > SearchLimit
    /\ Len(ret.value.results) = 3
    /\ outbound = 4

NumReal(cs) == Cardinality({i \in 1..Len(cs) : cs[i].is_comment /\ cs[i].body # Removed})

C10_NeverMissingValue ==
    (apc = "returned" /\ tool = "find_subreddits" /\ ~MissingCredential(deps)) =>
        /\ ret.kind \in {"dict", "str"}
        /\ service.subreddits # <<>> =>
               ret = Returned("dict", [subreddit |-> service.subreddits[1]])


\* ---- C12
\* the positions of the real comments of a flattened list
RealAt(cs) == {i \in 1..Len(cs) : cs[i].is_comment /\ cs[i].body # Removed}
\* the place of the real comment at position i among the real comments, by
\* descending score and, for equal scores, by position
RankAmongReal(cs, i) ==
    1 + Cardinality({j \in RealAt(cs) :
            cs[j].score > cs[i].score \/ (cs[j].score = cs[i].score /\ j < i)})
\* p is the first n characters of b (all of b when b is shorter)
IsFirstChars(p, b, n) ==
    /\ BodyLen(p) = (IF BodyLen(b) < n THEN BodyLen(b) ELSE n)
    /\ Len(p.head) <= Len(b.head)
    /\ p.head = SubSeq(b.head, 1, Len(p.head))
    /\ (p.pad > 0 => p.head = b.head)

C13_ReturnShowsItsCallArgs ==
    \A r \in rendered :
        /\ r.tool_args # EmptyDict
        /\ \E i \in 1..Len(AllParts(messages)) :
            LET part == AllParts(messages)[i]
            IN /\ part.part_kind = "tool-call"
               /\ part.tool_call_id = r.tool_call_id
               /\ JsonLoads(part.content).ok
               /\ JsonLoads(part.content).value = r.tool_args

C13_Witness ==
    /\ pc = "idle"
    /\ \E r \in rendered : r.during = "live"
    /\ \E r \in rendered : r.during = "replay"

====
